---- MODULE Spec2Model ----
(***************************************************************************)
(* GenericLinearTransport (openpnm/algorithms/GenericLinearTransport.py):  *)
(* the boundary-condition store, the assembly of A and b, run(), rate()    *)
(* and _calc_eff_prop(), as a state machine over one algorithm instance.   *)
(*                                                                         *)
(* Numbers.  Boundary values and conductances are integers or NaN.  The    *)
(* solved quantity, rates and the effective property are exact rationals   *)
(* [n, d] in lowest terms with d > 0; the rational with d = 0 is NaN.      *)
(* Arrays indexed by pore or throat are functions over 0..N-1, as in the   *)
(* source; index lists passed as arguments are sequences.                  *)
(***************************************************************************)
EXTENDS Integers, Sequences, FiniteSets

VARIABLES
    net,        \* simulation.network: [Np, conns]
    g,          \* phase['throat.g']: the conductance of every throat
    settings,   \* self.settings: the 'conductance' and 'quantity' keys
    bc,         \* the 'pore.<bctype>' and 'pore.<bctype>_value' arrays
    A,          \* self.A: [built, coo] with coo a sequence of <<row, col, data>>
    b,          \* self.b: [built, data]
    quantity,   \* self[settings['quantity']]: [exists, x]
    eff,        \* what the last _calc_eff_prop call computed
    R,          \* what the last rate(mode='group') and rate(mode='single') returned
    call,       \* the last call on the instance, its arguments and its outcome
    pre,        \* bc as it was before the last call on the store
    rt,         \* the round trip under way: a merge (stage 1), then the removal
                \* from the same pores (stage 2), and bc as it was before the merge
    ncalls      \* the number of calls made on the store so far

vars == <<net, g, settings, bc, A, b, quantity, eff, R, call, pre, rt, ncalls>>

(***************************************************************************)
(* Bounds of the model.                                                    *)
(***************************************************************************)
MaxVal == 2      \* boundary values are 1..MaxVal, or NaN
MaxG == 2        \* conductances are 1..MaxG, or NaN
MaxQ == 2        \* the quantity fields rate() is tried on hold 0..MaxQ
MaxCalls == 3    \* calls on the boundary-condition store in one history
MaxRunCalls == 1 \* boundary-condition calls in a history that also runs
MaxGeom == 2     \* domain_area and domain_length answer 1..MaxGeom

NaN == -1000000

IsNaN(x) == x = NaN

Neg(x) == IF IsNaN(x) THEN NaN ELSE -x

Add(x, y) == IF IsNaN(x) \/ IsNaN(y) THEN NaN ELSE x + y

(***************************************************************************)
(* Exact rationals.                                                        *)
(***************************************************************************)
Abs(x) == IF x < 0 THEN -x ELSE x

RECURSIVE GCD(_, _)
GCD(x, y) == IF y = 0 THEN x ELSE GCD(y, x % y)

RNaN == [n |-> 0, d |-> 0]

RIsNaN(r) == r.d = 0

Rat(n, d) ==
    IF d = 0 THEN RNaN
    ELSE LET k == GCD(Abs(n), Abs(d))
             s == IF d < 0 THEN -1 ELSE 1
         IN  [n |-> (s * n) \div k, d |-> (s * d) \div k]

FromFloat(x) == IF IsNaN(x) THEN RNaN ELSE [n |-> x, d |-> 1]

RAdd(x, y) == IF RIsNaN(x) \/ RIsNaN(y) THEN RNaN
              ELSE Rat(x.n * y.d + y.n * x.d, x.d * y.d)

RSub(x, y) == IF RIsNaN(x) \/ RIsNaN(y) THEN RNaN
              ELSE Rat(x.n * y.d - y.n * x.d, x.d * y.d)

RMul(x, y) == IF RIsNaN(x) \/ RIsNaN(y) THEN RNaN
              ELSE Rat(x.n * y.n, x.d * y.d)

\* Float division: a zero divisor gives inf or NaN, which the model folds to NaN.
RDiv(x, y) == IF RIsNaN(x) \/ RIsNaN(y) THEN RNaN
              ELSE Rat(x.n * y.d, x.d * y.n)

(***************************************************************************)
(* The network and the phase.                                              *)
(***************************************************************************)
Pair2 == [Np |-> 2, conns |-> [t \in 0..0 |-> <<0, 1>>]]

Chain3 == [Np |-> 3,
           conns |-> [t \in 0..1 |-> IF t = 0 THEN <<0, 1>> ELSE <<1, 2>>]]

Tri3 == [Np |-> 3,
         conns |-> [t \in 0..2 |-> IF t = 0 THEN <<0, 1>>
                                   ELSE IF t = 1 THEN <<2, 1>> ELSE <<0, 2>>]]

Ps == 0..(net.Np - 1)

Ts == DOMAIN net.conns

Vals == (1..MaxVal) \cup {NaN}

(***************************************************************************)
(* The boundary-condition store.                                           *)
(***************************************************************************)
BCTypes == {"dirichlet", "neumann", "neumann_group"}

Modes == {"merge", "overwrite", "remove"}

NoArray == [exists |-> FALSE,
            label |-> [p \in Ps |-> FALSE],
            value |-> [p \in Ps |-> NaN]]

EmptyStore == [k \in BCTypes |-> NoArray]

Range(s) == {s[i] : i \in DOMAIN s}

\* The members of a set of indices in ascending order.
RECURSIVE AscSeq(_)
AscSeq(S) ==
    IF S = {} THEN <<>>
    ELSE LET m == CHOOSE x \in S : \A y \in S : x <= y
         IN  <<m>> \o AscSeq(S \ {m})

\* _parse_mode(x, allowed, single=True): x when it is allowed, else it raises.
parse_mode_ok(x, allowed) == x \in allowed

\* _parse_indices(pores): the indices when every one is a pore, else it raises.
parse_indices_ok(pores) == \A i \in DOMAIN pores : pores[i] \in Ps

\* arr[pores] = values, values broadcast when it has one element: with an
\* index repeated, the last assignment stands.
Assign(arr, pores, values) ==
    [p \in DOMAIN arr |->
        IF p \in Range(pores)
        THEN LET i == CHOOSE i \in DOMAIN pores :
                          /\ pores[i] = p
                          /\ \A j \in DOMAIN pores : pores[j] = p => j <= i
             IN  IF Len(values) = 1 THEN values[1] ELSE values[i]
        ELSE arr[p]]

\* remove_BC with the pores argument ignored: every pore is cleared.
remove_BC_every_pore(store, pores) ==
    [k \in BCTypes |->
        IF k \in {"dirichlet", "neumann"} /\ store[k].exists
        THEN [exists |-> TRUE,
              label |-> [p \in Ps |-> FALSE],
              value |-> [p \in Ps |-> NaN]]
        ELSE store[k]]

remove_BC(store, pores) ==
    [k \in BCTypes |->
        IF k \in {"dirichlet", "neumann"} /\ store[k].exists
        THEN [exists |-> TRUE,
              label |-> Assign(store[k].label, pores, <<FALSE>>),
              value |-> Assign(store[k].value, pores, <<NaN>>)]
        ELSE store[k]]

\* Indexing an existing array with an index that is no pore raises.
remove_BC_err(store, pores) ==
    IF /\ ~parse_indices_ok(pores)
       /\ (store["dirichlet"].exists \/ store["neumann"].exists)
    THEN "IndexError" ELSE "ok"

\* Lines 102-111: label the pores, then store the values.
apply_BC(store, c) ==
    LET fresh == ~store[c.bctype].exists \/ c.mode = "overwrite"
        old == IF fresh THEN NoArray ELSE store[c.bctype]
    IN  [store EXCEPT ![c.bctype] =
            [exists |-> TRUE,
             label |-> Assign(old.label, c.pores, <<TRUE>>),
             value |-> Assign(old.value, c.pores, c.values)]]

\* set_boundary_conditions with the pores labelled before the values are counted.
set_boundary_conditions_labels_first(store, c) ==
    IF ~parse_mode_ok(c.bctype, BCTypes)
    THEN [err |-> "InvalidArgument", store |-> store]
    ELSE IF ~parse_mode_ok(c.mode, Modes)
    THEN [err |-> "InvalidArgument", store |-> store]
    ELSE IF ~parse_indices_ok(c.pores)
    THEN [err |-> "InvalidArgument", store |-> store]
    ELSE IF c.mode = "remove"
    THEN [err |-> "ok", store |-> remove_BC(store, c.pores)]
    ELSE IF Len(c.values) > 1 /\ Len(c.values) # Len(c.pores)
    THEN [err |-> "Exception",
          store |-> apply_BC(store, [c EXCEPT !.values = <<NaN>>])]
    ELSE [err |-> "ok", store |-> apply_BC(store, c)]

set_boundary_conditions(store, c) ==
    IF ~parse_mode_ok(c.bctype, BCTypes)
    THEN [err |-> "InvalidArgument", store |-> store]
    ELSE IF ~parse_mode_ok(c.mode, Modes)
    THEN [err |-> "InvalidArgument", store |-> store]
    ELSE IF ~parse_indices_ok(c.pores)
    THEN [err |-> "InvalidArgument", store |-> store]
    ELSE IF c.mode = "remove"
    THEN [err |-> "ok", store |-> remove_BC(store, c.pores)]
    ELSE IF Len(c.values) > 1 /\ Len(c.values) # Len(c.pores)
    THEN [err |-> "Exception", store |-> store]
    ELSE [err |-> "ok", store |-> apply_BC(store, c)]

(***************************************************************************)
(* setup: the keys are bound before the conductance is checked.            *)
(***************************************************************************)
\* _parse_prop(propname, element): the key when it names a property of that
\* element, else it raises.
parse_prop_ok(propname, element) ==
    propname \in (IF element = "throat" THEN {"throat.g"} ELSE {"pore.x"})

HasNaN(arr) == \E i \in DOMAIN arr : IsNaN(arr[i])

setup(st, conductance, quantity_key) ==
    IF ~parse_prop_ok(conductance, "throat")
    THEN [err |-> "InvalidArgument", settings |-> st]
    ELSE IF ~parse_prop_ok(quantity_key, "pore")
    THEN [err |-> "InvalidArgument",
          settings |-> [st EXCEPT !.conductance = conductance]]
    ELSE LET bound == [conductance |-> conductance, quantity |-> quantity_key]
         IN  IF HasNaN(g)
             THEN [err |-> "Exception", settings |-> bound]
             ELSE [err |-> "ok", settings |-> bound]

(***************************************************************************)
(* build_A and build_b.  A matrix in COO format is a sequence of           *)
(* <<row, col, data>>; entries at the same place add up.                   *)
(***************************************************************************)
Nt == Cardinality(Ts)

\* network.create_adjacency_matrix(data, fmt='coo'): every throat once in each
\* direction.
create_adjacency_matrix(data) ==
    [i \in 1..(2 * Nt) |->
        IF i <= Nt
        THEN <<net.conns[i - 1][1], net.conns[i - 1][2], data[i - 1]>>
        ELSE <<net.conns[i - 1 - Nt][2], net.conns[i - 1 - Nt][1],
               data[i - 1 - Nt]>>]

RECURSIVE SumSeq(_)
SumSeq(s) == IF s = <<>> THEN 0 ELSE Add(Head(s), SumSeq(Tail(s)))

Data(coo) == [i \in DOMAIN coo |-> coo[i][3]]

Row(coo, r) == SelectSeq(coo, LAMBDA e : e[1] = r)

At(coo, r, c) == SumSeq(Data(SelectSeq(coo, LAMBDA e : e[1] = r /\ e[2] = c)))

\* scipy.sparse.csgraph.laplacian(am): the negated entries of am, and on the
\* diagonal of every row the sum of am's entries in it.
laplacian(am) ==
    [i \in DOMAIN am |-> <<am[i][1], am[i][2], Neg(am[i][3])>>]
    \o [i \in 1..net.Np |-> <<i - 1, i - 1, SumSeq(Data(Row(am, i - 1)))>>]

\* self.toindices(self['pore.dirichlet'])
toindices(label) == AscSeq({p \in DOMAIN label : label[p]})

\* build_A with the entries in the columns of the Dirichlet pores removed too.
build_A_drop_columns(store) ==
    LET L == laplacian(create_adjacency_matrix([t \in Ts |-> Neg(g[t])]))
        P_bc == toindices(store["dirichlet"].label)
    IN  SelectSeq(L, LAMBDA e : e[1] \notin Range(P_bc) /\ e[2] \notin Range(P_bc))
        \o [i \in DOMAIN P_bc |-> <<P_bc[i], P_bc[i], 1>>]

build_A(store) ==
    LET L == laplacian(create_adjacency_matrix([t \in Ts |-> Neg(g[t])]))
    IN  IF store["dirichlet"].exists
        THEN LET P_bc == toindices(store["dirichlet"].label)
             IN  SelectSeq(L, LAMBDA e : e[1] \notin Range(P_bc))
                 \o [i \in DOMAIN P_bc |-> <<P_bc[i], P_bc[i], 1>>]
        ELSE L

build_b(store) ==
    LET b0 == [p \in Ps |-> 0]
        b1 == IF store["dirichlet"].exists
              THEN [p \in Ps |-> IF store["dirichlet"].label[p]
                                 THEN store["dirichlet"].value[p] ELSE b0[p]]
              ELSE b0
    IN  IF store["neumann"].exists
        THEN [p \in Ps |-> IF store["neumann"].label[p]
                           THEN Neg(store["neumann"].value[p]) ELSE b1[p]]
        ELSE b1

(***************************************************************************)
(* run.  scipy.sparse.linalg.spsolve is modelled by the exact solution     *)
(* (Cramer's rule) when A and b are finite and A is regular.  What it does *)
(* otherwise is not decided by this source: the model lets it raise and    *)
(* lets it return a vector of NaN.                                         *)
(***************************************************************************)
Dense(coo) == [r \in Ps |-> [c \in Ps |-> At(coo, r, c)]]

Without(s, k) == [i \in 1..(Len(s) - 1) |-> IF i < k THEN s[i] ELSE s[i + 1]]

RECURSIVE Det(_, _, _)
Det(M, rows, cols) ==
    IF rows = <<>> THEN 1
    ELSE LET Term(k) == (IF k % 2 = 1 THEN 1 ELSE -1) * M[rows[1]][cols[k]]
                        * Det(M, Tail(rows), Without(cols, k))
             Sum[k \in 0..Len(cols)] == IF k = 0 THEN 0 ELSE Sum[k - 1] + Term(k)
         IN  Sum[Len(cols)]

Regular(M, rhs) ==
    /\ \A r \in Ps : ~HasNaN(M[r])
    /\ ~HasNaN(rhs)
    /\ Det(M, AscSeq(Ps), AscSeq(Ps)) # 0

spsolve(M, rhs) ==
    LET idx == AscSeq(Ps)
        Mi(i) == [r \in Ps |-> [c \in Ps |-> IF c = i THEN rhs[r] ELSE M[r][c]]]
    IN  [i \in Ps |-> Rat(Det(Mi(i), idx, idx), Det(M, idx, idx))]

\* The outcomes of run(): what it raised, and A, b and the quantity field after it.
run(st, store) ==
    IF st.conductance = "None"
    THEN {[err |-> "conductance unbound", A |-> A, b |-> b, quantity |-> quantity]}
    ELSE LET A1 == [built |-> TRUE, data |-> build_A(store)]
             b1 == [built |-> TRUE, data |-> build_b(store)]
             M == Dense(A1.data)
             xs == IF Regular(M, b1.data)
                   THEN {[err |-> "ok", x |-> spsolve(M, b1.data)]}
                   ELSE {[err |-> "SolverError", x |-> <<>>],
                         [err |-> "ok", x |-> [p \in Ps |-> RNaN]]}
         IN  {[err |-> IF s.err = "ok" /\ st.quantity = "None"
                       THEN "quantity unbound" ELSE s.err,
               A |-> A1, b |-> b1,
               quantity |-> IF s.err = "ok" /\ st.quantity # "None"
                            THEN [exists |-> TRUE, x |-> s.x] ELSE quantity]
              : s \in xs}

(***************************************************************************)
(* rate and _calc_eff_prop.                                                *)
(***************************************************************************)
\* network.find_neighbor_throats(pores, mode='not_intersection'): the throats
\* with one end among the pores and the other end not.
find_neighbor_throats(P) ==
    AscSeq({t \in Ts : (net.conns[t][1] \in P) # (net.conns[t][2] \in P)})

RECURSIVE RSumSeq(_)
RSumSeq(s) == IF s = <<>> THEN FromFloat(0) ELSE RAdd(Head(s), RSumSeq(Tail(s)))

\* One throat's term with the ends taken as stored: pores1 = p1, pores2 = p2.
rate_term_as_stored(x, P, t) ==
    RMul(FromFloat(g[t]), RSub(x[net.conns[t][2]], x[net.conns[t][1]]))

\* Lines 258-268 for one throat: pores1 is the end among P, pores2 the other.
rate_term(x, P, t) ==
    LET p1 == net.conns[t][1]
        p2 == net.conns[t][2]
        pores1 == IF p1 \in P THEN p1 ELSE p2
        pores2 == IF p1 \in P THEN p2 ELSE p1
    IN  RMul(FromFloat(g[t]), RSub(x[pores2], x[pores1]))

rate_of(x, P) ==
    LET throats == find_neighbor_throats(P)
    IN  RSumSeq([i \in DOMAIN throats |-> rate_term(x, P, throats[i])])

rate(x, pores, mode) ==
    IF mode = "group"
    THEN <<rate_of(x, Range(pores))>>
    ELSE [i \in DOMAIN pores |-> rate_of(x, {pores[i]})]

\* sp.unique: the distinct values in ascending order, NaN last.
unique(values) ==
    AscSeq({v \in values : ~IsNaN(v)}) \o (IF NaN \in values THEN <<NaN>> ELSE <<>>)

\* sp.amax and sp.amin of a non-empty sorted array: NaN when it holds one.
amax(BCs) == BCs[Len(BCs)]

amin(BCs) == IF IsNaN(BCs[Len(BCs)]) THEN NaN ELSE BCs[1]

Sub(x, y) == Add(x, Neg(y))

NoEff == [done |-> FALSE]

EffError(err) == [done |-> TRUE, err |-> err]

\* _calc_eff_prop with the two boundary values subtracted the other way round.
calc_eff_prop_max_minus_min(store, q, area, length) ==
    IF ~q.exists THEN EffError("Exception")
    ELSE IF ~store["dirichlet"].exists THEN EffError("KeyError")
    ELSE LET value == store["dirichlet"].value
             BCs == unique({value[p] : p \in {p \in Ps : store["dirichlet"].label[p]}})
         IN  IF BCs = <<>> THEN EffError("ValueError")
             ELSE LET inlets == {p \in Ps : ~IsNaN(amax(BCs)) /\ value[p] = amax(BCs)}
                      outlets == {p \in Ps : ~IsNaN(amin(BCs)) /\ value[p] = amin(BCs)}
                  IN  IF inlets = {} THEN EffError("InvalidArgument")
                      ELSE IF Len(BCs) < 2 THEN EffError("IndexError")
                      ELSE LET flow == rate(q.x, AscSeq(inlets), "group")
                           IN  [done |-> TRUE, err |-> "ok", BCs |-> BCs,
                                inlets |-> inlets, outlets |-> outlets,
                                area |-> area, length |-> length, flow |-> flow,
                                D |-> RDiv(RDiv(RMul(RSumSeq(flow), FromFloat(length)),
                                                FromFloat(area)),
                                           FromFloat(Sub(BCs[2], BCs[1])))]

\* area and length are what network.domain_area and network.domain_length answer.
calc_eff_prop(store, q, area, length) ==
    IF ~q.exists THEN EffError("Exception")
    ELSE IF ~store["dirichlet"].exists THEN EffError("KeyError")
    ELSE LET value == store["dirichlet"].value
             BCs == unique({value[p] : p \in {p \in Ps : store["dirichlet"].label[p]}})
         IN  IF BCs = <<>> THEN EffError("ValueError")
             ELSE LET inlets == {p \in Ps : ~IsNaN(amax(BCs)) /\ value[p] = amax(BCs)}
                      outlets == {p \in Ps : ~IsNaN(amin(BCs)) /\ value[p] = amin(BCs)}
                  IN  IF inlets = {} THEN EffError("InvalidArgument")
                      ELSE IF Len(BCs) < 2 THEN EffError("IndexError")
                      ELSE LET flow == rate(q.x, AscSeq(inlets), "group")
                           IN  [done |-> TRUE, err |-> "ok", BCs |-> BCs,
                                inlets |-> inlets, outlets |-> outlets,
                                area |-> area, length |-> length, flow |-> flow,
                                D |-> RDiv(RDiv(RMul(RSumSeq(flow), FromFloat(length)),
                                                FromFloat(area)),
                                           FromFloat(Sub(BCs[1], BCs[2])))]

(***************************************************************************)
(* The calls a history draws from.                                         *)
(***************************************************************************)
\* Index lists: every non-empty set of pores in ascending order.
PoreArgs == {AscSeq(S) : S \in (SUBSET Ps) \ {{}}}

\* A list that holds a pore and then an index past the last pore.
OutOfRange == <<0, net.Np>>

\* bcvalues: one value for all the pores (NaN stands for None too: the float
\* arrays store None as NaN), or an array of two values.
ValueArgs ==
    {<<v>> : v \in Vals} \cup {<<MaxVal, 1>>}

BCCall(pores, bctype, values, mode) ==
    [pores |-> pores, bctype |-> bctype, values |-> values, mode |-> mode]

BCInputs ==
    {BCCall(p, k, v, m) : p \in PoreArgs, k \in {"dirichlet", "neumann"},
                          v \in ValueArgs, m \in {"merge", "overwrite"}}
    \cup {BCCall(p, "neumann_group", <<1>>, "merge") : p \in PoreArgs}
    \cup {BCCall(p, k, <<NaN>>, "remove") :
              p \in PoreArgs, k \in {"dirichlet", "neumann"}}
    \cup {BCCall(OutOfRange, k, <<1>>, m) :
              k \in {"dirichlet", "neumann"}, m \in Modes}
    \cup {BCCall(<<0>>, "robin", <<1>>, "merge"),
          BCCall(<<0>>, "dirichlet", <<1>>, "clear")}

NoCall == [op |-> "none", pores |-> <<>>, bctype |-> "", values |-> <<>>,
           mode |-> "", err |-> "ok"]

Called(op, c, err) ==
    [op |-> op, pores |-> c.pores, bctype |-> c.bctype, values |-> c.values,
     mode |-> c.mode, err |-> err]

(***************************************************************************)
(* Calls on the boundary-condition store.                                  *)
(***************************************************************************)
NoRoundTrip == [stage |-> 0, pores |-> <<>>, before |-> EmptyStore]

RoundTrip(op, c, err) ==
    IF op = "set_boundary_conditions" /\ c.mode = "merge" /\ err = "ok"
    THEN [stage |-> 1, pores |-> c.pores, before |-> bc]
    ELSE IF /\ rt.stage = 1
            /\ op = "remove_BC" \/ c.mode = "remove"
            /\ c.pores = rt.pores
            /\ err = "ok"
    THEN [rt EXCEPT !.stage = 2]
    ELSE NoRoundTrip

StoreCall(op, c, r) ==
    /\ bc' = r.store
    /\ call' = Called(op, c, r.err)
    /\ pre' = bc
    /\ rt' = RoundTrip(op, c, r.err)
    /\ ncalls' = ncalls + 1
    /\ eff' = NoEff
    /\ UNCHANGED <<net, g, settings, A, b, quantity, R>>

SetBoundaryConditions(Inputs, bound) ==
    /\ ncalls < bound
    /\ \E c \in Inputs :
          StoreCall("set_boundary_conditions", c, set_boundary_conditions(bc, c))

set_dirchlet_BC ==
    /\ ncalls < MaxCalls
    /\ \E pores \in PoreArgs, v \in Vals :
          LET c == BCCall(pores, "dirichlet", <<v>>, "merge")
          IN  StoreCall("set_boundary_conditions", c,
                        set_boundary_conditions(bc, c))

set_neumann_BC ==
    /\ ncalls < MaxCalls
    /\ \E pores \in PoreArgs, v \in Vals :
          LET c == BCCall(pores, "neumann", <<v>>, "merge")
          IN  StoreCall("set_boundary_conditions", c,
                        set_boundary_conditions(bc, c))

\* remove_BC(pores): an index that is no pore raises at the first array indexed.
RemoveBC ==
    /\ ncalls < MaxCalls
    /\ \E pores \in PoreArgs \cup {OutOfRange} :
          LET err == remove_BC_err(bc, pores)
          IN  StoreCall("remove_BC", BCCall(pores, "", <<>>, ""),
                        [err |-> err,
                         store |-> IF err = "ok" THEN remove_BC(bc, pores) ELSE bc])

\* remove_BC(): pores is None, and every pore is cleared.
RemoveAllBC ==
    /\ ncalls < MaxCalls
    /\ LET pores == AscSeq(Ps)
       IN  StoreCall("remove_BC", BCCall(pores, "", <<>>, ""),
                     [err |-> "ok", store |-> remove_BC(bc, pores)])

(***************************************************************************)
(* Histories of the boundary-condition store alone, on a two-pore network. *)
(***************************************************************************)
Unbuilt == [built |-> FALSE, data |-> <<>>]

NoQuantity == [exists |-> FALSE, x |-> <<>>]

NoRate == [group |-> [done |-> FALSE], single |-> [done |-> FALSE]]

Constructed ==
    /\ settings = [conductance |-> "None", quantity |-> "None"]
    /\ bc = EmptyStore
    /\ A = Unbuilt
    /\ b = Unbuilt
    /\ quantity = NoQuantity
    /\ eff = NoEff
    /\ R = NoRate
    /\ call = NoCall
    /\ pre = EmptyStore
    /\ rt = NoRoundTrip
    /\ ncalls = 0

InitBC ==
    /\ net = Pair2
    /\ g = [t \in Ts |-> 1]
    /\ Constructed

NextBC ==
    \/ SetBoundaryConditions(BCInputs, MaxCalls)
    \/ set_dirchlet_BC
    \/ set_neumann_BC
    \/ RemoveBC
    \/ RemoveAllBC

SpecBC == InitBC /\ [][NextBC]_vars

(***************************************************************************)
(* Histories that set boundary conditions, set up and run, on a chain of   *)
(* three pores.                                                            *)
(***************************************************************************)
Did(op, err) == [NoCall EXCEPT !.op = op, !.err = err]

\* The keys setup is called with: the right ones, and a quantity key that names
\* a throat property.
SetupInputs == {<<"throat.g", "pore.x">>, <<"throat.g", "throat.x">>}

Setup ==
    \E keys \in SetupInputs :
        LET r == setup(settings, keys[1], keys[2])
        IN  /\ settings' = r.settings
            /\ call' = Did("setup", r.err)
            /\ pre' = bc
            /\ rt' = NoRoundTrip
            /\ eff' = NoEff
            /\ UNCHANGED <<net, g, bc, A, b, quantity, R, ncalls>>

Run ==
    \E r \in run(settings, bc) :
        /\ A' = r.A
        /\ b' = r.b
        /\ quantity' = r.quantity
        /\ call' = Did("run", r.err)
        /\ pre' = bc
        /\ rt' = NoRoundTrip
        /\ eff' = NoEff
        /\ UNCHANGED <<net, g, settings, bc, R, ncalls>>

\* The network is asked for the area and the length only by a call that gets
\* as far as line 289.
GeomAnswers ==
    IF calc_eff_prop(bc, quantity, 1, 1).err = "ok" THEN 1..MaxGeom ELSE {1}

CalcEffProp ==
    \E area \in GeomAnswers, length \in GeomAnswers :
        /\ eff' = calc_eff_prop(bc, quantity, area, length)
        /\ call' = Did("_calc_eff_prop", eff'.err)
        /\ pre' = bc
        /\ rt' = NoRoundTrip
        /\ UNCHANGED <<net, g, settings, bc, A, b, quantity, R, ncalls>>

\* The boundary conditions these histories set: a value on an end of the
\* chain, on both ends or on every pore, and a flux into the first or the
\* middle pore.
RunBCInputs ==
    {BCCall(p, "dirichlet", v, "merge") :
        p \in {<<0>>, <<2>>, <<0, 2>>, <<0, 1, 2>>},
        v \in {<<x>> : x \in 1..MaxVal} \cup {<<MaxVal, 1>>}}
    \cup {BCCall(p, "neumann", <<x>>, "merge") :
              p \in {<<0>>, <<1>>}, x \in 1..MaxVal}

\* The conductance fields of these histories: the finite ones, and one that
\* holds a NaN.
GFields == [Ts -> 1..MaxG] \cup {[t \in Ts |-> IF t = 0 THEN NaN ELSE 1]}

InitRun ==
    /\ net = Chain3
    /\ g \in GFields
    /\ Constructed

NextRun ==
    \/ SetBoundaryConditions(RunBCInputs, MaxRunCalls)
    \/ Setup
    \/ Run
    \/ CalcEffProp

SpecRun == InitRun /\ [][NextRun]_vars

\* The same histories with one more boundary-condition call.
NextRun2 ==
    \/ SetBoundaryConditions(RunBCInputs, MaxRunCalls + 1)
    \/ Setup
    \/ Run
    \/ CalcEffProp

SpecRun2 == InitRun /\ [][NextRun2]_vars

(***************************************************************************)
(* rate() tried on quantity fields, conductances and pore sets.            *)
(***************************************************************************)
Rate ==
    \E pores \in PoreArgs, mode \in {"group", "single"} :
        /\ R' = [R EXCEPT ![mode] = [done |-> TRUE, pores |-> pores,
                                     val |-> rate(quantity.x, pores, mode)]]
        /\ UNCHANGED <<net, g, settings, bc, A, b, quantity, eff, call, pre, rt,
                       ncalls>>

InitRate ==
    /\ net \in {Chain3, Tri3}
    /\ g \in [Ts -> 1..MaxG]
    /\ settings = [conductance |-> "throat.g", quantity |-> "pore.x"]
    /\ quantity \in {[exists |-> TRUE, x |-> [p \in Ps |-> FromFloat(q[p])]] :
                        q \in [Ps -> 0..MaxQ]}
    /\ bc = EmptyStore
    /\ A = Unbuilt
    /\ b = Unbuilt
    /\ eff = NoEff
    /\ R = NoRate
    /\ call = NoCall
    /\ pre = EmptyStore
    /\ rt = NoRoundTrip
    /\ ncalls = 0

SpecRate == InitRate /\ [][Rate]_vars

(***************************************************************************)
(* Claims about the boundary-condition store, checked under SpecBC.        *)
(***************************************************************************)
IsSetBC == call.op = "set_boundary_conditions"

CallPores == Range(call.pores)

\* C1: after any sequence of set_boundary_conditions and remove_BC calls, no
\* pore has both its 'pore.dirichlet' and its 'pore.neumann' label true.
C1_NoPoreHoldsBothKinds ==
    \A p \in Ps : ~(bc["dirichlet"].label[p] /\ bc["neumann"].label[p])

\* C4: a set_boundary_conditions call that fails (bctype or mode not allowed,
\* an index that is no pore, or more than one value and not one per pore)
\* leaves every label and value array as it was before the call, and no array
\* comes to exist.
C4_FailedCallLeavesStore ==
    (IsSetBC /\ call.err # "ok") => bc = pre

C4_Witness ==
    /\ IsSetBC
    /\ call.err = "Exception"
    /\ call.mode = "overwrite"
    /\ Len(call.values) > 1 /\ Len(call.values) # Len(call.pores)
    /\ \E p \in Ps \ CallPores : bc[call.bctype].label[p]

\* C5: after set_boundary_conditions(S, bctype, v, mode='overwrite'), the only
\* pores with a Dirichlet or Neumann label are those of S, and the only kind
\* they hold is bctype.
C5_OverwriteRemovesAll ==
    (IsSetBC /\ call.mode = "overwrite" /\ call.err = "ok") =>
        \A k \in {"dirichlet", "neumann"}, p \in Ps :
            bc[k].label[p] => (p \in CallPores /\ k = call.bctype)

\* C6: set_boundary_conditions(S, bctype, NaN, mode='merge') leads to the label
\* and value arrays that removing the boundary conditions from S leads to.
C6_MergeNaNIsRemove ==
    (IsSetBC /\ call.mode = "merge" /\ call.err = "ok" /\ call.values = <<NaN>>)
        => bc = remove_BC(pre, call.pores)

\* C7: set_boundary_conditions(S, kind, values, mode='merge') and then
\* remove_BC(S) (or mode='remove' on S) leaves every pore of S with label false
\* and value NaN in the Dirichlet and the Neumann arrays that exist, and every
\* pore outside S with the labels and values it had before the two calls.
C7_RoundTrip ==
    rt.stage = 2 =>
        /\ \A k \in {"dirichlet", "neumann"}, p \in Range(rt.pores) :
              bc[k].exists => (~bc[k].label[p] /\ IsNaN(bc[k].value[p]))
        /\ \A k \in BCTypes, p \in Ps \ Range(rt.pores) :
              /\ bc[k].label[p] = rt.before[k].label[p]
              /\ bc[k].value[p] = rt.before[k].value[p]

C7_Witness ==
    /\ rt.stage = 2
    /\ \E k \in {"dirichlet", "neumann"}, p \in Range(rt.pores) :
          pre[k].label[p] /\ ~IsNaN(pre[k].value[p])
    /\ \E k \in {"dirichlet", "neumann"}, p \in Ps \ Range(rt.pores) :
          rt.before[k].label[p] /\ ~IsNaN(rt.before[k].value[p])

(***************************************************************************)
(* Claims about build_A, build_b, run and _calc_eff_prop.                  *)
(***************************************************************************)
Laplacian == laplacian(create_adjacency_matrix([t \in Ts |-> Neg(g[t])]))

Nonzero(coo) == SelectSeq(coo, LAMBDA e : e[3] # 0)

IdentityRow(coo, p) == Nonzero(Row(coo, p)) = <<<<p, p, 1>>>>

\* The last call was run() and got as far as building A and b.
Ran == call.op = "run" /\ call.err # "conductance unbound"

\* The solve of the last run() returned, and returned numbers.
Solved ==
    /\ call.op = "run" /\ call.err = "ok"
    /\ \A p \in Ps : ~RIsNaN(quantity.x[p])

\* In these histories the conductance field does not change, so a setup() call
\* has completed just when both keys are bound and no conductance is NaN.
SetupCompleted ==
    /\ settings.conductance # "None"
    /\ settings.quantity # "None"
    /\ ~HasNaN(g)

\* C2: set_boundary_conditions(S, 'dirichlet', v, mode='merge') with a scalar v
\* and then a successful run() give, for every pore p of S, the identity row in
\* A, b[p] = v and the solved quantity v, whatever the boundary conditions were
\* before.
C2_DirichletValueReproduced ==
    [][(/\ IsSetBC /\ call.err = "ok"
        /\ call.bctype = "dirichlet" /\ call.mode = "merge"
        /\ Len(call.values) = 1 /\ ~IsNaN(call.values[1])
        /\ SetupCompleted
        /\ Solved')
       => \A p \in CallPores :
              /\ IdentityRow(A'.data, p)
              /\ b'.data[p] = call.values[1]
              /\ quantity'.x[p] = FromFloat(call.values[1])]_vars

\* C3: in the matrix build_A returns, the row of a pore whose Dirichlet label
\* is true has one nonzero entry, a 1 on the diagonal, and the row of any other
\* pore is the row of the Laplacian, entries in the columns of Dirichlet pores
\* included, and sums to zero.  The conductances are numbers, as setup demands.
C3_RowsOfA ==
    (Ran /\ ~HasNaN(g)) =>
        \A p \in Ps :
            IF bc["dirichlet"].label[p]
            THEN IdentityRow(A.data, p)
            ELSE /\ Row(A.data, p) = Row(Laplacian, p)
                 /\ SumSeq(Data(Row(A.data, p))) = 0

C3_Witness ==
    /\ Ran /\ ~HasNaN(g)
    /\ \E p \in Ps, q \in Ps :
          /\ bc["dirichlet"].label[p]
          /\ ~bc["dirichlet"].label[q]
          /\ At(A.data, q, p) # 0
          /\ At(Laplacian, p, q) # 0

\* What C8 reads from the store: the Dirichlet values set, and their holders.
DirichletValues ==
    {bc["dirichlet"].value[p] : p \in {q \in Ps : bc["dirichlet"].label[q]}}

MaxValue == CHOOSE v \in DirichletValues : \A w \in DirichletValues : w <= v

MinValue == CHOOSE v \in DirichletValues : \A w \in DirichletValues : v <= w

Holders(v) == {p \in Ps : bc["dirichlet"].label[p] /\ bc["dirichlet"].value[p] = v}

TwoValuesSet ==
    /\ call.op = "_calc_eff_prop" /\ call.err = "ok"
    /\ Cardinality(DirichletValues) = 2
    /\ NaN \notin DirichletValues

InletRate == RSumSeq(rate(quantity.x, AscSeq(eff.inlets), "group"))

\* C8 as claimed: with two distinct Dirichlet values set and the algorithm
\* run, the inlet is the pores that hold the maximum, the outlet those that hold
\* the minimum, and D * area * (maximum - minimum) = rate(inlets) * length.
C8_MaxMinusMin ==
    TwoValuesSet =>
        /\ eff.inlets = Holders(MaxValue)
        /\ eff.outlets = Holders(MinValue)
        /\ RMul(RMul(eff.D, FromFloat(eff.area)), FromFloat(MaxValue - MinValue))
               = RMul(InletRate, FromFloat(eff.length))

\* C8 as amended: the same, with D * area * (minimum - maximum) = rate(inlets)
\* * length: the divisor is the outlet value minus the inlet value.
C8_MinMinusMax ==
    TwoValuesSet =>
        /\ eff.inlets = Holders(MaxValue)
        /\ eff.outlets = Holders(MinValue)
        /\ RMul(RMul(eff.D, FromFloat(eff.area)), FromFloat(MinValue - MaxValue))
               = RMul(InletRate, FromFloat(eff.length))

C8_Witness ==
    /\ TwoValuesSet
    /\ ~RIsNaN(eff.D) /\ eff.D.n # 0
    /\ eff.area # eff.length
    /\ eff.inlets # {} /\ eff.outlets # {}

\* C9: in a history in which setup() has not completed successfully (never
\* called, or raised on a NaN conductance), run() fails and writes nothing to
\* the quantity field.  Stated for the runs that hand the solver a finite,
\* regular system, where the outcome of the solve is not in question.
C9_RunNeedsSetup ==
    (/\ call.op = "run"
     /\ ~SetupCompleted
     /\ A.built /\ b.built /\ Regular(Dense(A.data), b.data))
    => (call.err # "ok" /\ ~quantity.exists)

(***************************************************************************)
(* Claims about rate, checked under SpecRate.                              *)
(***************************************************************************)
\* The throats with one end in P, and for each the end inside and the end outside.
BoundaryThroats(P) ==
    {t \in Ts : Cardinality({net.conns[t][1], net.conns[t][2]} \cap P) = 1}

Inner(t, P) == CHOOSE p \in {net.conns[t][1], net.conns[t][2]} : p \in P

Outer(t, P) == CHOOSE p \in {net.conns[t][1], net.conns[t][2]} : p \notin P

RECURSIVE NetFlow(_, _)
NetFlow(S, P) ==
    IF S = {} THEN FromFloat(0)
    ELSE LET t == CHOOSE t \in S : TRUE
         IN  RAdd(RMul(FromFloat(g[t]),
                       RSub(quantity.x[Outer(t, P)], quantity.x[Inner(t, P)])),
                  NetFlow(S \ {t}, P))

NoThroatInside(P) ==
    \A t \in Ts : ~(net.conns[t][1] \in P /\ net.conns[t][2] \in P)

\* C10: rate(P, mode='group') is the sum over the throats with one end in P of
\* conductance * (quantity at the end outside P - quantity at the end inside),
\* however the throat stores its ends, and it is the sum of the entries of
\* rate(P, mode='single') when no throat joins two pores of P.
C10_GroupRate ==
    /\ R.group.done =>
          R.group.val = <<NetFlow(BoundaryThroats(Range(R.group.pores)),
                                  Range(R.group.pores))>>
    /\ (/\ R.group.done /\ R.single.done
        /\ R.group.pores = R.single.pores
        /\ NoThroatInside(Range(R.group.pores)))
       => R.group.val[1] = RSumSeq(R.single.val)

C10_Witness ==
    /\ R.group.done /\ R.single.done
    /\ R.group.pores = R.single.pores
    /\ Len(R.group.pores) > 1
    /\ NoThroatInside(Range(R.group.pores))
    /\ R.group.val[1].n # 0
    /\ \E t \in BoundaryThroats(Range(R.group.pores)) :
          net.conns[t][1] \notin Range(R.group.pores)
    /\ \E t \in BoundaryThroats(Range(R.group.pores)) :
          net.conns[t][1] \in Range(R.group.pores)

====
